---- MODULE Spec2Model ----
(***************************************************************************)
(* Model of the exhibits/artefacts stub HTTP service (src/main.go).        *)
(*                                                                         *)
(* Strings the code parses (query parameters, object numbers) are          *)
(* sequences of one-character strings, so that strings.Split,              *)
(* strings.TrimSpace and strconv.Atoi are computed character by character. *)
(* Fixed texts (file names, messages, header names) are TLA+ strings.      *)
(***************************************************************************)
EXTENDS Integers, Sequences, FiniteSets, TLC

\* ------------------------------------------------------------------ bounds

\* Longest value of a filter query parameter.
MaxLen == 3

\* Largest number of records in a data file.
MaxRecs == 2

\* Number of requests that may be in flight at once.
NumReq == 2

\* ----------------------------------------------------------------- strings

\* The characters of the query values tried: digits (with a leading zero and
\* a sign possible), the separator, a blank, a letter.
Chars == {"0", "1", "2", "-", ",", " ", "a"}

RECURSIVE StrOfLen(_)
StrOfLen(n) ==
    IF n = 0 THEN {<<>>}
    ELSE {Append(s, c) : s \in StrOfLen(n - 1), c \in Chars}

StrUpTo(n) == UNION {StrOfLen(k) : k \in 0..n}

IsSpace(c) == c = " "

RECURSIVE TrimLeft(_)
TrimLeft(s) ==
    IF s # <<>> /\ IsSpace(Head(s)) THEN TrimLeft(Tail(s)) ELSE s

RECURSIVE TrimRight(_)
TrimRight(s) ==
    IF s # <<>> /\ IsSpace(s[Len(s)])
    THEN TrimRight(SubSeq(s, 1, Len(s) - 1))
    ELSE s

\* A TrimSpace that was forgotten: the token is used as it was split.
NoTrimSpace(s) == s

\* strings.TrimSpace
TrimSpace(s) == TrimRight(TrimLeft(s))

\* strings.Split(s, ","): the pieces between the commas, in order; n commas
\* give n + 1 pieces, empty ones included.
RECURSIVE SplitFrom(_, _, _)
SplitFrom(s, cur, acc) ==
    IF s = <<>> THEN Append(acc, cur)
    ELSE IF Head(s) = "," THEN SplitFrom(Tail(s), <<>>, Append(acc, cur))
    ELSE SplitFrom(Tail(s), Append(cur, Head(s)), acc)

Split(s) == SplitFrom(s, <<>>, <<>>)

DigitVal ==
    [c \in {"0", "1", "2", "3", "4", "5", "6", "7", "8", "9"} |->
        CASE c = "0" -> 0 [] c = "1" -> 1 [] c = "2" -> 2 [] c = "3" -> 3
          [] c = "4" -> 4 [] c = "5" -> 5 [] c = "6" -> 6 [] c = "7" -> 7
          [] c = "8" -> 8 [] c = "9" -> 9]

IsDigit(c) == c \in DOMAIN DigitVal

RECURSIVE DigitsValue(_, _)
DigitsValue(s, acc) ==
    IF s = <<>> THEN acc
    ELSE DigitsValue(Tail(s), acc * 10 + DigitVal[Head(s)])

\* strconv.Atoi: an optional sign, then one or more decimal digits and
\* nothing else.  (A string of at most MaxLen + 1 digits is far inside the
\* range of int, so the range error cannot arise here.)
Atoi(s) ==
    LET signed == s # <<>> /\ Head(s) \in {"+", "-"}
        digits == IF signed THEN Tail(s) ELSE s
        ok     == digits # <<>> /\ \A i \in 1..Len(digits) : IsDigit(digits[i])
    IN  IF ~ok THEN [val |-> 0, err |-> TRUE]
        ELSE [val |-> IF signed /\ Head(s) = "-"
                      THEN 0 - DigitsValue(digits, 0)
                      ELSE DigitsValue(digits, 0),
              err |-> FALSE]

\* ------------------------------------------------------------- Go slices

\* A Go slice: nil, or a (possibly empty) sequence of elements.
NilSlice == [isNil |-> TRUE, elems |-> <<>>]
Slice(elems) == [isNil |-> FALSE, elems |-> elems]

\* append(s, x): appending to a nil slice gives a non-nil one.
AppendSlice(s, x) == [isNil |-> FALSE, elems |-> Append(s.elems, x)]

\* ------------------------------------------------------------ data model

ExhibitsFile == "exhibits.json"
ArtefactsFile == "qm_data.json"
DataFiles == {ExhibitsFile, ArtefactsFile}

\* ExhibitDTO, cut to its key and one field that tells two records with the
\* same key apart.
ExhibitDTO == {[ID |-> 1, NameEn |-> "x"], [ID |-> 1, NameEn |-> "y"],
               [ID |-> 2, NameEn |-> "x"]}

\* ArtefactDTO, cut the same way; the key is a string.
ArtefactDTO == {[ObjectNumber |-> <<"a">>, TitleEN |-> "x"],
                [ObjectNumber |-> <<"a">>, TitleEN |-> "y"],
                [ObjectNumber |-> <<"1">>, TitleEN |-> "x"]}

RECURSIVE SeqsOfLen(_, _)
SeqsOfLen(S, n) ==
    IF n = 0 THEN {<<>>}
    ELSE {Append(s, x) : s \in SeqsOfLen(S, n - 1), x \in S}

SeqsUpTo(S, n) == UNION {SeqsOfLen(S, k) : k \in 0..n}

\* The contents of a data file as a JSON document:
\*   garbage  not JSON at all
\*   null     the JSON value null
\*   array    a top-level array of record objects
\*   object   a top-level object; its "results" member is absent or null
\*            (noResults) or an array of record objects
Doc(kind, noResults, items) ==
    [kind |-> kind, noResults |-> noResults, items |-> items]

GarbageDoc == Doc("garbage", TRUE, <<>>)
NullDoc == Doc("null", TRUE, <<>>)
ArrayDoc(items) == Doc("array", TRUE, items)
ObjectDoc(items) == Doc("object", FALSE, items)
ObjectNoResultsDoc == Doc("object", TRUE, <<>>)

ExhibitDocs ==
    {GarbageDoc, NullDoc, ObjectNoResultsDoc}
        \cup {ArrayDoc(s) : s \in SeqsUpTo(ExhibitDTO, MaxRecs)}

ArtefactDocs ==
    {GarbageDoc, NullDoc, ArrayDoc(<<>>), ObjectNoResultsDoc}
        \cup {ObjectDoc(s) : s \in SeqsUpTo(ArtefactDTO, MaxRecs)}

\* json.Unmarshal(data, &exhibits) with exhibits a nil []ExhibitDTO.
UnmarshalExhibits(doc) ==
    CASE doc.kind = "garbage" ->
            [val |-> NilSlice, err |-> "invalid character"]
      [] doc.kind = "null" -> [val |-> NilSlice, err |-> ""]
      [] doc.kind = "array" -> [val |-> Slice(doc.items), err |-> ""]
      [] doc.kind = "object" ->
            [val |-> NilSlice,
             err |-> "json: cannot unmarshal object into Go value of type []main.ExhibitDTO"]

\* json.Unmarshal(data, &qmResponse) with qmResponse a zero QMResponse; only
\* its Results field is read afterwards.
UnmarshalQMResponse(doc) ==
    CASE doc.kind = "garbage" ->
            [val |-> NilSlice, err |-> "invalid character"]
      [] doc.kind = "null" -> [val |-> NilSlice, err |-> ""]
      [] doc.kind = "array" ->
            [val |-> NilSlice,
             err |-> "json: cannot unmarshal array into Go value of type main.QMResponse"]
      [] doc.kind = "object" ->
            [val |-> IF doc.noResults THEN NilSlice ELSE Slice(doc.items),
             err |-> ""]

\* ------------------------------------------------------------ file system

\* The three places findFile looks in: the name as given (relative to the
\* current directory), the executable's directory, the working directory.
Dirs == {"", "execDir", "wd"}
Path(dir, name) == <<dir, name>>
Paths == {Path(d, n) : d \in Dirs, n \in DataFiles}

VARIABLES
    fs,            \* the disk and the process environment; never written
    running,       \* the server process is alive
    req,           \* the request served last (one at a time)
    resp,          \* its response
    log,           \* the lines its handler logged
    failedRoutes,  \* history: the routes that have answered 500 so far
    clients,       \* the requests the clients send; never written
    handlers       \* concurrent serving: the handler invocations in flight

vars == <<fs, running, req, resp, log, failedRoutes, clients, handlers>>

\* os.Stat(path) returns no error: something is there (readable or not).
Stat(path) == fs.at[path] # "absent"

\* findFile(filename): the path to use and the error ("" for nil).
findFile(filename) ==
    IF Stat(Path("", filename))
    THEN [path |-> Path("", filename), err |-> ""]
    ELSE IF fs.execOK /\ Stat(Path("execDir", filename))
    THEN [path |-> Path("execDir", filename), err |-> ""]
    ELSE IF fs.wdOK /\ Stat(Path("wd", filename))
    THEN [path |-> Path("wd", filename), err |-> ""]
    ELSE [path |-> Path("", filename), err |-> "file does not exist"]

\* os.ReadFile(path): the document read and the error (<<>> for nil).
ReadFile(path) ==
    CASE fs.at[path] = "file" ->
            [data |-> fs.content[path[2]], err |-> <<>>]
      [] fs.at[path] = "unreadable" ->
            [data |-> GarbageDoc,
             err |-> <<"open ", path[1], path[2], ": permission denied">>]
      [] fs.at[path] = "absent" ->
            [data |-> GarbageDoc,
             err |-> <<"open ", path[1], path[2], ": no such file or directory">>]

\* ------------------------------------------------------------- responses

TextBody(text) ==
    [kind |-> "text", text |-> text, isNull |-> FALSE, elems |-> <<>>]

\* json.NewEncoder(w).Encode(slice): a nil slice is written as null, any
\* other slice as an array of its elements, in order.  (A write that fails
\* because the client went away is only logged, on line 204; the response
\* then is cut short, and no state of the service changes.)
EncodeJSON(slice) ==
    [kind |-> "json", text |-> <<>>, isNull |-> slice.isNil,
     elems |-> slice.elems]

CORSHeaders ==
    {<<"Access-Control-Allow-Origin", "*">>,
     <<"Access-Control-Allow-Methods", "GET, OPTIONS">>,
     <<"Access-Control-Allow-Headers", "Content-Type">>}

\* http.Error(w, msg, code)
HttpError(msg, code) ==
    [status |-> code,
     headers |-> {<<"Content-Type", "text/plain; charset=utf-8">>,
                  <<"X-Content-Type-Options", "nosniff">>},
     body |-> TextBody(msg \o <<"\n">>)]

\* The process exits after writing the line, as log.Fatalf does.
LogFatalf(line) == [line |-> line, exit |-> TRUE]

\* log.Printf(line): the line is written and the process goes on.
LogPrintf(line) == [line |-> line, exit |-> FALSE]

\* r.URL.Query().Get(name): "" when the parameter is absent.
Absent == [present |-> FALSE, value |-> <<>>]
Present(s) == [present |-> TRUE, value |-> s]
QueryGet(query) == IF query.present THEN query.value ELSE <<>>

\* ------------------------------------------------------------ handlers

\* A "/" handler that reports on the exhibits file.
RootHandlerChecksFile ==
    IF findFile(ExhibitsFile).err # ""
    THEN [resp |-> HttpError(<<"Error finding exhibits.json">>, 500),
          log |-> <<>>]
    ELSE [resp |-> [status |-> 200,
                    headers |-> {<<"Content-Type", "text/plain">>},
                    body |-> TextBody(<<"Hello, world!">>)],
          log |-> <<>>]

\* The "/" handler.
RootHandler ==
    [resp |-> [status |-> 200,
               headers |-> {<<"Content-Type", "text/plain">>},
               body |-> TextBody(<<"Hello, world!">>)],
     log |-> <<>>]

\* The parse loop of the /exhibits handler: tokens that Atoi rejects are
\* skipped.
RECURSIVE ParseTargetIDs(_, _)
ParseTargetIDs(tokens, targetIDs) ==
    IF tokens = <<>> THEN targetIDs
    ELSE LET id == Atoi(TrimSpace(Head(tokens)))
         IN  ParseTargetIDs(Tail(tokens),
                            IF id.err THEN targetIDs
                            ELSE AppendSlice(targetIDs, id.val))

\* The inner loop without its break: the exhibit is appended once for every
\* target that equals its ID.
RECURSIVE MatchExhibitNoBreak(_, _, _, _)
MatchExhibitNoBreak(exhibit, targetIDs, j, filtered) ==
    IF j > Len(targetIDs) THEN filtered
    ELSE MatchExhibitNoBreak(exhibit, targetIDs, j + 1,
            IF exhibit.ID = targetIDs[j] THEN AppendSlice(filtered, exhibit)
            ELSE filtered)

\* The inner loop of the /exhibits filter, from target j on: the exhibit is
\* appended at the first target that equals its ID, and the loop breaks.
RECURSIVE MatchExhibit(_, _, _, _)
MatchExhibit(exhibit, targetIDs, j, filtered) ==
    IF j > Len(targetIDs) THEN filtered
    ELSE IF exhibit.ID = targetIDs[j] THEN AppendSlice(filtered, exhibit)
    ELSE MatchExhibit(exhibit, targetIDs, j + 1, filtered)

\* The outer loop of the /exhibits filter, from exhibit i on.
RECURSIVE RangeExhibits(_, _, _, _)
RangeExhibits(exhibits, i, targetIDs, filtered) ==
    IF i > Len(exhibits) THEN filtered
    ELSE RangeExhibits(exhibits, i + 1, targetIDs,
                       MatchExhibit(exhibits[i], targetIDs, 1, filtered))

\* The filter with no else branch: an empty parameter also goes through the
\* loops, with the single empty token Split gives.
FilterExhibitsNoElse(exhibits, idsParam) ==
    RangeExhibits(exhibits.elems, 1,
                  ParseTargetIDs(Split(idsParam), NilSlice).elems, NilSlice)

\* The filter that falls back to the whole dataset when no token parses.
FilterExhibitsFallback(exhibits, idsParam) ==
    LET targetIDs == ParseTargetIDs(Split(idsParam), NilSlice)
    IN  IF idsParam # <<>> /\ targetIDs.elems # <<>>
        THEN RangeExhibits(exhibits.elems, 1, targetIDs.elems, NilSlice)
        ELSE exhibits

\* filteredExhibits, as the /exhibits handler computes it from the decoded
\* exhibits and the value of ids.
FilterExhibits(exhibits, idsParam) ==
    IF idsParam # <<>>
    THEN RangeExhibits(exhibits.elems, 1,
                       ParseTargetIDs(Split(idsParam), NilSlice).elems,
                       NilSlice)
    ELSE exhibits

\* The 200 response of a data route.
JSONResponse(slice) ==
    [status |-> 200,
     headers |-> CORSHeaders \cup {<<"Content-Type", "application/json">>},
     body |-> EncodeJSON(slice)]

\* The received line every data handler logs first.
Received(route) == LogPrintf(<<"Received request: ", route>>)

\* /exhibits: findFile failed.
ExhibitsFindFailed(found) ==
    [resp |-> HttpError(<<"Error finding exhibits.json">>, 500),
     log |-> <<Received("/exhibits"),
               LogPrintf(<<"Error finding file: ", found.err>>)>>]

\* /exhibits: os.ReadFile failed.
ExhibitsReadFailed(found, read) ==
    [resp |-> HttpError(<<"Error reading exhibits.json">>, 500),
     log |-> <<Received("/exhibits"),
               LogPrintf(<<"Error reading file ", found.path[1],
                           found.path[2], ": ">> \o read.err)>>]

\* /exhibits: json.Unmarshal failed.
ExhibitsParseFailed(decoded) ==
    [resp |-> HttpError(<<"Error parsing exhibits.json">>, 500),
     log |-> <<Received("/exhibits"),
               LogPrintf(<<"Error unmarshalling json: ", decoded.err>>)>>]

\* /exhibits: the headers are set and filteredExhibits is encoded.
ExhibitsWritten(filteredExhibits) ==
    [resp |-> JSONResponse(filteredExhibits), log |-> <<Received("/exhibits")>>]

\* The "/exhibits" handler.
ExhibitsHandler(query) ==
    LET found == findFile(ExhibitsFile)
        read == ReadFile(found.path)
        decoded == UnmarshalExhibits(read.data)
    IN  IF found.err # "" THEN ExhibitsFindFailed(found)
        ELSE IF read.err # <<>> THEN ExhibitsReadFailed(found, read)
        ELSE IF decoded.err # "" THEN ExhibitsParseFailed(decoded)
        ELSE ExhibitsWritten(FilterExhibits(decoded.val, QueryGet(query)))

\* The parse loop of the /artefacts handler: every trimmed token is a target.
RECURSIVE ParseTargetObjectNumbers(_, _)
ParseTargetObjectNumbers(tokens, targetObjectNumbers) ==
    IF tokens = <<>> THEN targetObjectNumbers
    ELSE ParseTargetObjectNumbers(Tail(tokens),
            AppendSlice(targetObjectNumbers, TrimSpace(Head(tokens))))

\* The inner loop of the /artefacts filter, from target j on.
RECURSIVE MatchArtefact(_, _, _, _)
MatchArtefact(artefact, targetObjectNumbers, j, filtered) ==
    IF j > Len(targetObjectNumbers) THEN filtered
    ELSE IF artefact.ObjectNumber = targetObjectNumbers[j]
    THEN AppendSlice(filtered, artefact)
    ELSE MatchArtefact(artefact, targetObjectNumbers, j + 1, filtered)

\* The outer loop of the /artefacts filter, from artefact i on.
RECURSIVE RangeArtefacts(_, _, _, _)
RangeArtefacts(results, i, targetObjectNumbers, filtered) ==
    IF i > Len(results) THEN filtered
    ELSE RangeArtefacts(results, i + 1, targetObjectNumbers,
            MatchArtefact(results[i], targetObjectNumbers, 1, filtered))

\* filteredArtefacts, as the /artefacts handler computes it from
\* qmResponse.Results and the value of objectNumbers.
FilterArtefacts(results, objectNumbersParam) ==
    IF objectNumbersParam # <<>>
    THEN RangeArtefacts(results.elems, 1,
            ParseTargetObjectNumbers(Split(objectNumbersParam),
                                     NilSlice).elems,
            NilSlice)
    ELSE results

\* /artefacts: findFile failed.  (The backquotes around the file name in
\* this message are written as quotes: a TLA+ string cannot hold them.)
ArtefactsFindFailed(found) ==
    [resp |-> HttpError(<<"Error finding 'qm_data.json': ", found.err>>, 500),
     log |-> <<Received("/artefacts"),
               LogPrintf(<<"Error finding file: ", found.err>>)>>]

\* /artefacts: os.ReadFile failed.
ArtefactsReadFailed(found, read) ==
    [resp |-> HttpError(<<"Error reading qm_data.json: ">> \o read.err, 500),
     log |-> <<Received("/artefacts"),
               LogPrintf(<<"Error reading file ", found.path[1],
                           found.path[2], ": ">> \o read.err)>>]

\* /artefacts: json.Unmarshal failed.
ArtefactsParseFailed(decoded) ==
    [resp |-> HttpError(<<"Error parsing qm_data.json: ", decoded.err>>, 500),
     log |-> <<Received("/artefacts"),
               LogPrintf(<<"Error unmarshalling json: ", decoded.err>>)>>]

\* /artefacts: the headers are set and filteredArtefacts is encoded.
ArtefactsWritten(filteredArtefacts) ==
    [resp |-> JSONResponse(filteredArtefacts),
     log |-> <<Received("/artefacts")>>]

\* The "/artefacts" handler.
ArtefactsHandler(query) ==
    LET found == findFile(ArtefactsFile)
        read == ReadFile(found.path)
        decoded == UnmarshalQMResponse(read.data)
    IN  IF found.err # "" THEN ArtefactsFindFailed(found)
        ELSE IF read.err # <<>> THEN ArtefactsReadFailed(found, read)
        ELSE IF decoded.err # "" THEN ArtefactsParseFailed(decoded)
        ELSE ArtefactsWritten(FilterArtefacts(decoded.val, QueryGet(query)))

\* --------------------------------------------------- requests, one by one

Request(route, query) == [route |-> route, query |-> query]

NoRequest == Request("", Absent)
NoResponse == [status |-> 0, headers |-> {}, body |-> TextBody(<<>>)]

\* One goroutine per request in flight.
Reqs == 1..NumReq

\* The local variables of a handler invocation that has not started.
IdleLocals ==
    [pc |-> "idle", request |-> NoRequest,
     found |-> [path |-> Path("", ""), err |-> ""],
     read |-> [data |-> GarbageDoc, err |-> <<>>],
     decoded |-> [val |-> NilSlice, err |-> ""],
     filtered |-> NilSlice,
     resp |-> NoResponse, log |-> <<>>]

\* The process goes on after a handler unless one of its log calls exits.
Survives(lines) == \A i \in 1..Len(lines) : ~lines[i].exit

\* The server answers one request with the outcome of its handler.
Serve(request, outcome) ==
    /\ running
    /\ req' = request
    /\ resp' = outcome.resp
    /\ log' = outcome.log
    /\ running' = Survives(outcome.log)
    /\ failedRoutes' = IF outcome.resp.status = 500
                       THEN failedRoutes \cup {request.route}
                       ELSE failedRoutes
    /\ UNCHANGED <<fs, clients, handlers>>

GetRoot ==
    \E request \in clients :
        /\ request.route = "/"
        /\ Serve(request, RootHandler)

GetExhibits ==
    \E request \in clients :
        /\ request.route = "/exhibits"
        /\ Serve(request, ExhibitsHandler(request.query))

GetArtefacts ==
    \E request \in clients :
        /\ request.route = "/artefacts"
        /\ Serve(request, ArtefactsHandler(request.query))

Next == GetRoot \/ GetExhibits \/ GetArtefacts

FileStates == {"absent", "unreadable", "file"}

SampleExhibits ==
    ArrayDoc(<<[ID |-> 1, NameEn |-> "x"], [ID |-> 2, NameEn |-> "x"]>>)

SampleArtefacts ==
    ObjectDoc(<<[ObjectNumber |-> <<"a">>, TitleEN |-> "x"],
                [ObjectNumber |-> <<"1">>, TitleEN |-> "x"]>>)

\* After ListenAndServe has started: no request served yet.
InitServer ==
    /\ running = TRUE
    /\ req = NoRequest
    /\ resp = NoResponse
    /\ log = <<>>
    /\ failedRoutes = {}
    /\ handlers = [r \in Reqs |-> IdleLocals]

SampleRequests ==
    {Request("/", Absent),
     Request("/exhibits", Absent), Request("/exhibits", Present(<<"1">>)),
     Request("/artefacts", Absent), Request("/artefacts", Present(<<"a">>))}

\* Any layout of the data files over the three places, each file holding
\* either a sample dataset or something that is not JSON; the clients send
\* the sample requests, in any order and any number of times.
Init ==
    /\ InitServer
    /\ clients = SampleRequests
    /\ \E at \in [Paths -> FileStates], execOK \in BOOLEAN, wdOK \in BOOLEAN,
          ex \in {SampleExhibits, GarbageDoc},
          ar \in {SampleArtefacts, GarbageDoc} :
          fs = [at |-> at, execOK |-> execOK, wdOK |-> wdOK,
                content |-> (ExhibitsFile :> ex) @@ (ArtefactsFile :> ar)]

Spec == Init /\ [][Next]_vars

Queries == {Absent} \cup {Present(s) : s \in StrUpTo(MaxLen)}

\* Both files in the current directory and readable.
FilesInPlace(ex, ar) ==
    [at |-> [p \in Paths |-> IF p[1] = "" THEN "file" ELSE "absent"],
     execOK |-> TRUE, wdOK |-> TRUE,
     content |-> (ExhibitsFile :> ex) @@ (ArtefactsFile :> ar)]

\* One data route is exercised: its file holds any document of up to MaxRecs
\* records, and the clients send "/" and one request to that route with any
\* value of its filter parameter of up to MaxLen characters.
InitFilter ==
    /\ InitServer
    /\ \E query \in Queries :
          \/ /\ clients = {Request("/", Absent), Request("/exhibits", query)}
             /\ \E ex \in ExhibitDocs : fs = FilesInPlace(ex, SampleArtefacts)
          \/ /\ clients = {Request("/", Absent), Request("/artefacts", query)}
             /\ \E ar \in ArtefactDocs : fs = FilesInPlace(SampleExhibits, ar)

SpecFilter == InitFilter /\ [][Next]_vars

\* ------------------------------------------- requests served concurrently

\* Variables declared at package level instead: every invocation reads the
\* ones of the first goroutine.
PackageLevel(r) == handlers[1]

\* The local variables (r, filePath, data, err, exhibits, qmResponse,
\* idsParam, filtered...) the invocation serving r reads: its own.
Locals(r) == handlers[r]

IsExhibits(route) == route = "/exhibits"

\* The handler's own line, by route.
FileOf(route) == IF IsExhibits(route) THEN ExhibitsFile ELSE ArtefactsFile

FindFailed(route, found) ==
    IF IsExhibits(route) THEN ExhibitsFindFailed(found)
    ELSE ArtefactsFindFailed(found)

ReadFailed(route, found, read) ==
    IF IsExhibits(route) THEN ExhibitsReadFailed(found, read)
    ELSE ArtefactsReadFailed(found, read)

ParseFailed(route, decoded) ==
    IF IsExhibits(route) THEN ExhibitsParseFailed(decoded)
    ELSE ArtefactsParseFailed(decoded)

Unmarshal(route, doc) ==
    IF IsExhibits(route) THEN UnmarshalExhibits(doc)
    ELSE UnmarshalQMResponse(doc)

Filter(route, slice, param) ==
    IF IsExhibits(route) THEN FilterExhibits(slice, param)
    ELSE FilterArtefacts(slice, param)

Written(route, filtered) ==
    IF IsExhibits(route) THEN ExhibitsWritten(filtered)
    ELSE ArtefactsWritten(filtered)

\* Invocation r moves on with its locals set to l.
Continue(r, l) ==
    /\ handlers' = [handlers EXCEPT ![r] = l]
    /\ running' = Survives(l.log)
    /\ UNCHANGED <<fs, clients, req, resp, log, failedRoutes>>

\* Invocation r returns: its response and log lines are those of outcome.
Return(r, outcome) ==
    Continue(r, [handlers[r] EXCEPT !.pc = "done", !.resp = outcome.resp,
                                    !.log = outcome.log])

\* The server hands a request to a fresh invocation of its route's handler.
Accept(r) ==
    /\ running
    /\ handlers[r].pc \in {"idle", "done"}
    /\ \E request \in clients :
          Continue(r, [IdleLocals EXCEPT
                         !.request = request,
                         !.pc = IF request.route = "/" THEN "root"
                                ELSE "locate"])

\* The "/" handler, whole.
Root(r) ==
    /\ running
    /\ handlers[r].pc = "root"
    /\ Return(r, RootHandler)

\* A data handler logs the request and calls findFile.
Locate(r) ==
    /\ running
    /\ handlers[r].pc = "locate"
    /\ LET route == Locals(r).request.route
           found == findFile(FileOf(route))
       IN  IF found.err # "" THEN Return(r, FindFailed(route, found))
           ELSE Continue(r, [handlers[r] EXCEPT !.pc = "read",
                                                !.found = found,
                                                !.log = <<Received(route)>>])

\* os.ReadFile(filePath)
Read(r) ==
    /\ running
    /\ handlers[r].pc = "read"
    /\ LET route == Locals(r).request.route
           found == Locals(r).found
           read == ReadFile(found.path)
       IN  IF read.err # <<>> THEN Return(r, ReadFailed(route, found, read))
           ELSE Continue(r, [handlers[r] EXCEPT !.pc = "decode",
                                                !.read = read])

\* json.Unmarshal(data, ...)
Decode(r) ==
    /\ running
    /\ handlers[r].pc = "decode"
    /\ LET route == Locals(r).request.route
           decoded == Unmarshal(route, Locals(r).read.data)
       IN  IF decoded.err # "" THEN Return(r, ParseFailed(route, decoded))
           ELSE Continue(r, [handlers[r] EXCEPT !.pc = "filter",
                                                !.decoded = decoded])

\* The query parameter is read and the records are filtered.
FilterStep(r) ==
    /\ running
    /\ handlers[r].pc = "filter"
    /\ LET l == Locals(r)
       IN  Continue(r, [handlers[r] EXCEPT
                          !.pc = "encode",
                          !.filtered = Filter(l.request.route, l.decoded.val,
                                              QueryGet(l.request.query))])

\* The headers are set and the filtered records are encoded.
Encode(r) ==
    /\ running
    /\ handlers[r].pc = "encode"
    /\ Return(r, Written(Locals(r).request.route, Locals(r).filtered))

NextConc ==
    \E r \in Reqs :
        \/ Accept(r)
        \/ Root(r)
        \/ Locate(r)
        \/ Read(r)
        \/ Decode(r)
        \/ FilterStep(r)
        \/ Encode(r)

\* Each data file readable in the current directory, missing from every
\* place, readable in the executable's directory only, or not JSON.
Layout(exState, arState) ==
    [at |-> [p \in Paths |->
               LET state == IF p[2] = ExhibitsFile THEN exState ELSE arState
               IN  CASE state = "missing" -> "absent"
                     [] state = "in execDir" ->
                            IF p[1] = "execDir" THEN "file" ELSE "absent"
                     [] OTHER -> IF p[1] = "" THEN "file" ELSE "absent"],
     execOK |-> TRUE, wdOK |-> TRUE,
     content |-> (ExhibitsFile :>
                     IF exState = "garbage" THEN GarbageDoc ELSE SampleExhibits)
                 @@ (ArtefactsFile :>
                     IF arState = "garbage" THEN GarbageDoc
                     ELSE SampleArtefacts)]

LayoutStates == {"in place", "missing", "in execDir", "garbage"}

InitConc ==
    /\ InitServer
    /\ clients = SampleRequests
    /\ \E exState \in LayoutStates, arState \in LayoutStates :
          fs = Layout(exState, arState)

SpecConc == InitConc /\ [][NextConc]_vars

\* ======================================================== the properties
\* What the responses are measured against is stated here from the request
\* and the disk alone, without the handlers' operators.

DataRoutes == {"/exhibits", "/artefacts"}

DataFileOf(route) == IF route = "/exhibits" THEN "exhibits.json" ELSE "qm_data.json"

\* The directories searched, in order.
Searched ==
    <<"">> \o (IF fs.execOK THEN <<"execDir">> ELSE <<>>)
           \o (IF fs.wdOK THEN <<"wd">> ELSE <<>>)

PresentAt(name) ==
    {i \in DOMAIN Searched : fs.at[<<Searched[i], name>>] # "absent"}

NotFound(name) == PresentAt(name) = {}

FirstFound(name) ==
    LET first == CHOOSE i \in PresentAt(name) :
                     \A j \in PresentAt(name) : i <= j
    IN  <<Searched[first], name>>

\* The data file of the route is found, can be read and decodes.
Usable(route) ==
    LET name == DataFileOf(route)
        kind == fs.content[name].kind
    IN  /\ ~NotFound(name)
        /\ fs.at[FirstFound(name)] = "file"
        /\ IF route = "/exhibits" THEN kind \in {"null", "array"}
           ELSE kind \in {"null", "object"}

\* The records of the route's data file, in file order.
Dataset(route) == fs.content[DataFileOf(route)].items

\* The value of the filter parameter of the last request.
ReqValue == IF req.query.present THEN req.query.value ELSE <<>>

\* The pieces of s between its commas.
Tokens(s) ==
    LET cuts == {0, Len(s) + 1} \cup {i \in 1..Len(s) : s[i] = ","}
    IN  {SubSeq(s, a + 1, b - 1) :
            <<a, b>> \in {p \in cuts \X cuts :
                            /\ p[1] < p[2]
                            /\ \A c \in cuts : ~(p[1] < c /\ c < p[2])}}

\* t without the blanks around it.
Trimmed(t) ==
    LET inked == {i \in 1..Len(t) : t[i] # " "}
    IN  IF inked = {} THEN <<>>
        ELSE SubSeq(t, CHOOSE i \in inked : \A j \in inked : i <= j,
                       CHOOSE i \in inked : \A j \in inked : i >= j)

DecimalDigits == <<"0", "1", "2", "3", "4", "5", "6", "7", "8", "9">>

Unsigned(x) ==
    IF x # <<>> /\ x[1] \in {"+", "-"} THEN SubSeq(x, 2, Len(x)) ELSE x

\* x is written as an integer: an optional sign and decimal digits.
IsInteger(x) ==
    /\ Unsigned(x) # <<>>
    /\ \A i \in 1..Len(Unsigned(x)) :
          \E n \in 1..10 : DecimalDigits[n] = Unsigned(x)[i]

RECURSIVE Decimal(_)
Decimal(d) ==
    IF d = <<>> THEN 0
    ELSE 10 * Decimal(SubSeq(d, 1, Len(d) - 1))
            + (CHOOSE n \in 1..10 : DecimalDigits[n] = d[Len(d)]) - 1

IntegerOf(x) ==
    IF x[1] = "-" THEN 0 - Decimal(Unsigned(x)) ELSE Decimal(Unsigned(x))

\* The ids a value of ids asks for: its tokens that are integers.
RequestedIDs(s) ==
    {IntegerOf(Trimmed(t)) : t \in {u \in Tokens(s) : IsInteger(Trimmed(u))}}

\* The object numbers a value of objectNumbers asks for.
RequestedObjectNumbers(s) == {Trimmed(t) : t \in Tokens(s)}

\* The records of the route's dataset whose key is asked for by s, each once,
\* in file order.
Matching(route, s) ==
    LET Asked(record) ==
            IF route = "/exhibits" THEN record.ID \in RequestedIDs(s)
            ELSE record.ObjectNumber \in RequestedObjectNumbers(s)
    IN  SelectSeq(Dataset(route), Asked)

Hello ==
    /\ resp.status = 200
    /\ <<"Content-Type", "text/plain">> \in resp.headers
    /\ resp.body.kind = "text"
    /\ resp.body.text = <<"Hello, world!">>

\* C1: on a data route whose file is readable and decodes, a non-empty
\* filter parameter gets exactly the records whose key is one of the
\* requested keys, each once, in file order.
C1_FilterReturnsMatching ==
    (req.route \in DataRoutes /\ Usable(req.route) /\ ReqValue # <<>>)
        => /\ resp.body.kind = "json"
           /\ resp.body.elems = Matching(req.route, ReqValue)

\* ids=2,1 on the file holding ids 1 and 2: both records, in file order.
C1_Witness ==
    /\ req = Request("/exhibits", Present(<<"2", ",", "1">>))
    /\ resp.body.elems = <<[ID |-> 1, NameEn |-> "x"],
                           [ID |-> 2, NameEn |-> "x"]>>

\* C2: a non-empty filter that no record matches gets HTTP 200 with an empty
\* JSON array as its body.
C2_NoMatchIsEmptyArray ==
    (/\ req.route \in DataRoutes
     /\ Usable(req.route)
     /\ ReqValue # <<>>
     /\ Matching(req.route, ReqValue) = <<>>)
        => /\ resp.status = 200
           /\ resp.body.kind = "json"
           /\ ~resp.body.isNull
           /\ resp.body.elems = <<>>

\* C5: on a data route whose file is readable and decodes, an absent or
\* empty filter parameter gets HTTP 200 with every record of the dataset, in
\* file order.
C5_NoFilterReturnsAll ==
    (req.route \in DataRoutes /\ Usable(req.route) /\ ReqValue = <<>>)
        => /\ resp.status = 200
           /\ resp.body.kind = "json"
           /\ resp.body.elems = Dataset(req.route)

\* /exhibits with no ids on a file of two different records.
C5_Witness ==
    /\ req = Request("/exhibits", Absent)
    /\ Len(resp.body.elems) = 2
    /\ resp.body.elems[1] # resp.body.elems[2]

\* C6: on /exhibits, a non-empty ids none of whose tokens is an integer gets
\* no records, the same response as a filter that matches nothing (ids=0:
\* no record has id 0), never the whole dataset.
C6_UnparseableIdsReturnNothing ==
    (/\ req.route = "/exhibits"
     /\ Usable(req.route)
     /\ ReqValue # <<>>
     /\ \A t \in Tokens(ReqValue) : ~IsInteger(Trimmed(t)))
        => /\ resp.body.elems = <<>>
           /\ resp = ExhibitsHandler(Present(<<"0">>)).resp

\* ids=a,a on a file that holds records.
C6_Witness ==
    /\ req = Request("/exhibits", Present(<<"a", ",", "a">>))
    /\ Dataset("/exhibits") # <<>>
    /\ Usable("/exhibits")
    /\ resp.body.elems = <<>>

\* C7 as stated: for every value of ids, /exhibits answers 200 and returns
\* the records selected by the tokens that are integers.
C7_EveryValueSelectsByIntegerTokens ==
    (req.route = "/exhibits" /\ Usable(req.route))
        => /\ resp.status = 200
           /\ resp.body.elems = Matching(req.route, ReqValue)

\* C7, amended: for every value of ids, /exhibits answers 200; for every
\* non-empty value it returns the records selected by the tokens that are
\* integers after trimming, and for the empty value every record.
C7_NonEmptyValueSelectsByIntegerTokens ==
    (req.route = "/exhibits" /\ Usable(req.route))
        => /\ resp.status = 200
           /\ ReqValue # <<>>
                => resp.body.elems = Matching(req.route, ReqValue)
           /\ ReqValue = <<>> => resp.body.elems = Dataset(req.route)

\* ids=a,1: the token a is skipped and record 1 is returned.
C7_Witness ==
    /\ req = Request("/exhibits", Present(<<"a", ",", "1">>))
    /\ resp.status = 200
    /\ Len(resp.body.elems) = 1
    /\ resp.body.elems[1].ID = 1

\* C3: every response of a data route, the 500 ones included, carries the
\* three CORS headers.
C3_CORSOnEveryResponse ==
    req.route \in DataRoutes => CORSHeaders \subseteq resp.headers

\* C4: a request to a data route whose file is in none of the searched
\* places gets 500 with a non-empty plain-text body and no records; the
\* process stays up, and whatever has failed before, "/" and a data route
\* whose file is usable are answered as they always are.
C4_MissingFileFailsOnlyItsRoute ==
    /\ running
    /\ (req.route \in DataRoutes /\ NotFound(DataFileOf(req.route)))
          => /\ resp.status = 500
             /\ <<"Content-Type", "text/plain; charset=utf-8">>
                    \in resp.headers
             /\ resp.body.kind = "text"
             /\ resp.body.text # <<>>
             /\ resp.body.elems = <<>>
    /\ req.route = "/" => Hello
    /\ (req.route \in DataRoutes /\ Usable(req.route))
          => /\ resp.status = 200
             /\ resp.body.elems =
                    IF ReqValue = <<>> THEN Dataset(req.route)
                    ELSE Matching(req.route, ReqValue)

\* /exhibits has failed for want of its file, and /artefacts is then served.
C4_Witness ==
    /\ NotFound("exhibits.json")
    /\ "/exhibits" \in failedRoutes
    /\ req.route = "/artefacts"
    /\ resp.status = 200
    /\ resp.body.elems # <<>>

\* C8: "/" is answered 200, text/plain, "Hello, world!", whatever the data
\* files are and whatever was served before.
C8_RootAlwaysHello == req.route = "/" => Hello

\* "/" served after both data routes have failed.
C8_Witness ==
    /\ req.route = "/"
    /\ failedRoutes = DataRoutes
    /\ resp.status = 200

\* C9: findFile returns the first of its candidates that exists, or the
\* name it was given and a not-found error; and when nothing is found the
\* handler goes on to read that name, so that the failure it reports is the
\* read's.
C9_NotFoundIsReportedByTheRead ==
    /\ \A name \in DataFiles :
          findFile(name) =
              IF NotFound(name)
              THEN [path |-> <<"", name>>, err |-> "file does not exist"]
              ELSE [path |-> FirstFound(name), err |-> ""]
    /\ (req.route \in DataRoutes /\ NotFound(DataFileOf(req.route)))
          => resp.body.text[1] \in {"Error reading exhibits.json",
                                    "Error reading qm_data.json: "}

\* The response a request gets when it is served alone.
Alone(request) ==
    CASE request.route = "/" -> RootHandler
      [] request.route = "/exhibits" -> ExhibitsHandler(request.query)
      [] request.route = "/artefacts" -> ArtefactsHandler(request.query)

\* C10: under every interleaving of the steps of the requests in flight, a
\* request that has been answered got the status and body it gets alone.
C10_ConcurrentRequestsIndependent ==
    \A r \in Reqs :
        handlers[r].pc = "done"
            => handlers[r].resp = Alone(handlers[r].request).resp

\* An /exhibits request answered while an /artefacts one is being decoded.
C10_Witness ==
    \E r \in Reqs, q \in Reqs :
        /\ handlers[r].pc = "done"
        /\ handlers[r].request.route = "/exhibits"
        /\ handlers[r].resp.status = 200
        /\ handlers[q].pc = "decode"
        /\ handlers[q].request.route = "/artefacts"

====
